---- MODULE Spec2Model ----
(***************************************************************************)
(* Priority-queue triage and worker assignment of the HEAL platform:       *)
(*   heal_platform/core/patient_management_engine.py                       *)
(*   heal_platform/core/lab_technician_engine.py                           *)
(* Objects (Patient, LabTest) are referenced by their position in          *)
(* all_patients / all_tests; 0 stands for Python's None and for ''.        *)
(* Time (now, arrival_time, booking_date) is counted in ticks of ten hours. *)
(***************************************************************************)
EXTENDS Integers, Sequences, FiniteSets, TLC

VARIABLES now, all_patients, triage_queue, doctors, patient_assignments,
          all_tests, priority_queue, routine_queue, technicians,
          test_assignments, medicines, critical_queue, threads, op, ret, item

vars == <<now, all_patients, triage_queue, doctors, patient_assignments,
          all_tests, priority_queue, routine_queue, technicians,
          test_assignments, medicines, critical_queue, threads, op, ret, item>>

medicine_vars == <<medicines, critical_queue>>

patient_vars == <<all_patients, triage_queue, doctors, patient_assignments>>
lab_vars == <<all_tests, priority_queue, routine_queue, technicians, test_assignments>>

-----------------------------------------------------------------------------
(* Bounds of the model *)

MaxPatients == 3
MaxTests == 3
MaxRegistered == 2
NumIds == 3
NumWorkers == 2
MaxCap == 2
MaxCount == 3
MaxToday == 2
\* the latest hour of the clock in the specification of the scores
MaxHours == 12
\* Medicine objects made
MaxMedicines == 2
\* threads that call the engines at the same time
NumThreads == 2
\* pop_next_patient calls made after the queue was drained
MaxExtraPops == 2

PatientIds == 1..NumIds
TestIds == 1..NumIds
WorkerIds == 1..NumWorkers

None == 0

-----------------------------------------------------------------------------
(* PatientPriority, PatientStatus *)

CRITICAL == 1
EMERGENCY == 2
URGENT == 3
SEMI_URGENT == 4
NON_URGENT == 5

WAITING == "Waiting"
IN_CONSULTATION == "In Consultation"
DISCHARGED == "Discharged"

Min(a, b) == IF a < b THEN a ELSE b
Max(a, b) == IF a > b THEN a ELSE b

\* str.lower() on the consciousness levels that occur
Lower(s) ==
    CASE s = "Alert" -> "alert"
      [] s = "Unconscious" -> "unconscious"
      [] s = "Confused" -> "confused"
      [] OTHER -> s

\* VitalSigns.__init__: temperature is kept in tenths of a degree
DefaultVitals ==
    [temperature |-> 986, bp_systolic |-> 120, heart_rate |-> 72,
     respiratory_rate |-> 16, oxygen_saturation |-> 98, pain_scale |-> 0,
     consciousness_level |-> "Alert"]

\* the vital-sign readings the model submits
VitalsNormal == DefaultVitals
VitalsSevere ==
    [DefaultVitals EXCEPT !.temperature = 1040, !.bp_systolic = 190,
                          !.heart_rate = 130, !.oxygen_saturation = 88]
VitalsComa ==
    [VitalsSevere EXCEPT !.respiratory_rate = 26,
                         !.consciousness_level = "Unconscious"]

\* a reading that gives the tier EMERGENCY (pain_scale >= 8, severity 15)
VitalsPain == [DefaultVitals EXCEPT !.pain_scale = 8]

VitalsInputs == {VitalsNormal, VitalsSevere, VitalsComa}

calculate_severity_score(v) ==
    LET temp == IF v.temperature > 1030 \/ v.temperature < 950 THEN 20
                ELSE IF v.temperature > 1010 \/ v.temperature < 960 THEN 10 ELSE 0
        bp   == IF v.bp_systolic > 180 \/ v.bp_systolic < 90 THEN 20
                ELSE IF v.bp_systolic > 160 \/ v.bp_systolic < 100 THEN 10 ELSE 0
        hr   == IF v.heart_rate > 120 \/ v.heart_rate < 50 THEN 15
                ELSE IF v.heart_rate > 100 \/ v.heart_rate < 60 THEN 8 ELSE 0
        rr   == IF v.respiratory_rate > 24 \/ v.respiratory_rate < 12 THEN 15
                ELSE IF v.respiratory_rate > 20 \/ v.respiratory_rate < 14 THEN 8 ELSE 0
        o2   == IF v.oxygen_saturation < 90 THEN 25
                ELSE IF v.oxygen_saturation < 95 THEN 15 ELSE 0
        pain == IF v.pain_scale >= 8 THEN 15
                ELSE IF v.pain_scale >= 6 THEN 10
                ELSE IF v.pain_scale >= 4 THEN 5 ELSE 0
        cons == IF Lower(v.consciousness_level) \in {"unconscious", "unresponsive"} THEN 30
                ELSE IF Lower(v.consciousness_level) \in {"confused", "drowsy"} THEN 15 ELSE 0
    IN Min(temp + bp + hr + rr + o2 + pain + cons, 100)

\* Patient._calculate_priority once every attribute of the patient exists
\* (p.chest_complaint: 'chest pain' or 'difficulty breathing' in chief_complaint)
_calculate_priority(p) ==
    LET severity_score == calculate_severity_score(p.vital_signs) IN
    IF \/ severity_score >= 80
       \/ p.trauma_alert
       \/ Lower(p.vital_signs.consciousness_level) \in {"unconscious", "unresponsive"}
       \/ p.vital_signs.oxygen_saturation < 85
    THEN CRITICAL
    ELSE IF \/ severity_score >= 60
            \/ p.is_ambulance_arrival
            \/ p.vital_signs.pain_scale >= 8
            \/ p.chest_complaint
    THEN EMERGENCY
    ELSE IF \/ severity_score >= 40
            \/ p.vital_signs.pain_scale >= 6
            \/ p.age > 75
            \/ p.medical_history_len > 3
    THEN URGENT
    ELSE IF \/ severity_score >= 20
            \/ p.vital_signs.pain_scale >= 4
    THEN SEMI_URGENT
    ELSE NON_URGENT

\* arrival_time when 'arrivalTime' is given as text and not as a datetime
NotDatetime == -1

\* the patient records the model submits: patient_data of Patient.__init__;
\* arrivalTime is given as text, so that scores do not depend on the clock
PatientDataInputs ==
    [patientId : PatientIds, vitalSigns : VitalsInputs,
     arrivalTime : {NotDatetime},
     isAmbulanceArrival : {FALSE}, traumaAlert : {FALSE},
     infectiousDiseaseAlert : {FALSE}, chestComplaint : {FALSE},
     age : {40}, medicalHistoryLen : {0}]

\* Patient.__init__ computes the priority (line 110) before it sets
\* trauma_alert (line 117): `severity_score >= 80 or self.trauma_alert`
\* reads the missing attribute unless the first operand is true.
PatientInitRaises(d) == calculate_severity_score(d.vitalSigns) < 80

\* Patient.__init__ when it completes
Patient(d) ==
    [patient_id |-> d.patientId,
     vital_signs |-> d.vitalSigns,
     arrival_time |-> d.arrivalTime,
     priority |-> CRITICAL,
     status |-> WAITING,
     assigned_doctor |-> None,
     is_ambulance_arrival |-> d.isAmbulanceArrival,
     trauma_alert |-> d.traumaAlert,
     infectious_disease_alert |-> d.infectiousDiseaseAlert,
     chest_complaint |-> d.chestComplaint,
     age |-> d.age,
     medical_history_len |-> d.medicalHistoryLen]

\* get_priority_score with a tier step of 100 instead of 1000
get_priority_score_step100(p, t) ==
    LET base_score == p.priority * 100
        severity_penalty == calculate_severity_score(p.vital_signs)
        wait_penalty == IF p.arrival_time # NotDatetime
                        THEN Min((t - p.arrival_time) * 10, 100) ELSE 0
    IN base_score - severity_penalty - wait_penalty
         - (IF p.trauma_alert THEN 500 ELSE 0)
         - (IF p.is_ambulance_arrival THEN 200 ELSE 0)
         - (IF p.infectious_disease_alert THEN 150 ELSE 0)

\* Patient.get_priority_score at time t; the clock counts hours, so
\* wait_hours * 10 is 10 per tick
get_priority_score(p, t) ==
    LET base_score == p.priority * 1000
        severity_penalty == calculate_severity_score(p.vital_signs)
        wait_penalty == IF p.arrival_time # NotDatetime
                        THEN Min((t - p.arrival_time) * 10, 100) ELSE 0
    IN base_score - severity_penalty - wait_penalty
         - (IF p.trauma_alert THEN 500 ELSE 0)
         - (IF p.is_ambulance_arrival THEN 200 ELSE 0)
         - (IF p.infectious_disease_alert THEN 150 ELSE 0)

-----------------------------------------------------------------------------
(* heapq on a list of tuples (score, index, object); list position 0 of the *)
(* code is position 1 here                                                 *)

\* tuple comparison a < b: score first, then the insertion index; the
\* indices of one queue are all different, so the objects are not reached
TupleLess(a, b) == a[1] < b[1] \/ (a[1] = b[1] /\ a[2] < b[2])

Swap(h, i, j) == [h EXCEPT ![i] = h[j], ![j] = h[i]]

\* heapq._siftdown(heap, 0, pos): move heap[pos] towards the root
RECURSIVE _siftdown(_, _)
_siftdown(h, pos) ==
    IF pos > 1 /\ TupleLess(h[pos], h[pos \div 2])
    THEN _siftdown(Swap(h, pos, pos \div 2), pos \div 2)
    ELSE h

\* heapq._siftup(heap, pos): bubble the smaller child up until a leaf is
\* reached, then sift the displaced item back down (towards the root)
RECURSIVE _siftup(_, _)
_siftup(h, pos) ==
    LET childpos == 2 * pos
        rightpos == childpos + 1
        c == IF rightpos <= Len(h) /\ ~TupleLess(h[childpos], h[rightpos])
             THEN rightpos ELSE childpos
    IN IF childpos <= Len(h)
       THEN _siftup(Swap(h, pos, c), c)
       ELSE _siftdown(h, pos)

heappush(h, it) == _siftdown(Append(h, it), Len(h) + 1)

\* heapq.heappop: the list that is left; the item returned is h[1]
heappop(h) ==
    LET lastelt == h[Len(h)]
        rest == SubSeq(h, 1, Len(h) - 1)
    IN IF rest = <<>> THEN rest ELSE _siftup([rest EXCEPT ![1] = lastelt], 1)

\* del d[k]
Del(d, k) == [x \in DOMAIN d \ {k} |-> d[x]]
\* d[k] = v
Put(d, k, v) == [x \in DOMAIN d \cup {k} |-> IF x = k THEN v ELSE d[x]]

-----------------------------------------------------------------------------
(* PatientTriagePriorityQueue: q = [heap, patient_lookup, index];          *)
(* pats is the list of Patient objects the tuples refer to                 *)

NewTriageQueue == [heap |-> <<>>, patient_lookup |-> <<>>, index |-> 0]

\* add_patient with a heap key whose index decreases
add_patient_lifo(q, pats, patient, t) ==
    [heap |-> heappush(q.heap, <<get_priority_score(pats[patient], t), 0 - q.index, patient>>),
     patient_lookup |-> Put(q.patient_lookup, pats[patient].patient_id, patient),
     index |-> q.index + 1]

add_patient(q, pats, patient, t) ==
    [heap |-> heappush(q.heap, <<get_priority_score(pats[patient], t), q.index, patient>>),
     patient_lookup |-> Put(q.patient_lookup, pats[patient].patient_id, patient),
     index |-> q.index + 1]

\* the result: the queue afterwards, the patient returned, the tuple it was in
\* get_next_patient without the look-up of the id: the heap top is returned
get_next_patient_top(q, pats) ==
    IF q.heap = <<>>
    THEN [queue |-> q, patient |-> None, item |-> <<>>]
    ELSE [queue |-> q, patient |-> q.heap[1][3], item |-> q.heap[1]]

RECURSIVE get_next_patient(_, _)
get_next_patient(q, pats) ==
    IF q.heap = <<>>
    THEN [queue |-> q, patient |-> None, item |-> <<>>]
    ELSE IF pats[q.heap[1][3]].patient_id \in DOMAIN q.patient_lookup
    THEN [queue |-> q, patient |-> q.heap[1][3], item |-> q.heap[1]]
    ELSE get_next_patient([q EXCEPT !.heap = heappop(q.heap)], pats)

\* pop_next_patient without the look-up of the id: the heap top is returned
pop_next_patient_unchecked(q, pats) ==
    IF q.heap = <<>>
    THEN [queue |-> q, patient |-> None, item |-> <<>>]
    ELSE [queue |-> [heap |-> heappop(q.heap),
                     patient_lookup |-> Del(q.patient_lookup, pats[q.heap[1][3]].patient_id),
                     index |-> q.index],
          patient |-> q.heap[1][3], item |-> q.heap[1]]

\* pop_next_patient without line 218: the id stays in patient_lookup
pop_next_patient_keep(q, pats) ==
    IF q.heap = <<>>
    THEN [queue |-> q, patient |-> None, item |-> <<>>]
    ELSE [queue |-> [q EXCEPT !.heap = heappop(q.heap)],
          patient |-> IF pats[q.heap[1][3]].patient_id \in DOMAIN q.patient_lookup
                      THEN q.heap[1][3] ELSE None,
          item |-> q.heap[1]]

RECURSIVE pop_next_patient(_, _)
pop_next_patient(q, pats) ==
    IF q.heap = <<>>
    THEN [queue |-> q, patient |-> None, item |-> <<>>]
    ELSE LET it == q.heap[1]
             popped == [q EXCEPT !.heap = heappop(q.heap)]
         IN IF pats[it[3]].patient_id \in DOMAIN q.patient_lookup
            THEN [queue |-> [popped EXCEPT !.patient_lookup =
                                Del(q.patient_lookup, pats[it[3]].patient_id)],
                  patient |-> it[3], item |-> it]
            ELSE pop_next_patient(popped, pats)

remove_patient(q, patient_id) ==
    IF patient_id \in DOMAIN q.patient_lookup
    THEN [queue |-> [q EXCEPT !.patient_lookup = Del(q.patient_lookup, patient_id)],
          result |-> TRUE]
    ELSE [queue |-> q, result |-> FALSE]

\* the result: the queue and the patient objects afterwards, the value returned
update_patient_priority(q, pats, patient_id, new_vitals, t) ==
    IF patient_id \in DOMAIN q.patient_lookup
    THEN LET patient == q.patient_lookup[patient_id]
             withVitals == [pats[patient] EXCEPT !.vital_signs = new_vitals]
             pats2 == [pats EXCEPT ![patient] =
                          [withVitals EXCEPT !.priority = _calculate_priority(withVitals)]]
         IN [queue |-> add_patient(remove_patient(q, patient_id).queue, pats2, patient, t),
             patients |-> pats2, result |-> TRUE]
    ELSE [queue |-> q, patients |-> pats, result |-> FALSE]

\* get_queue_statistics: total_patients and priority_breakdown
get_queue_statistics(q, pats) ==
    LET active_patients == {q.patient_lookup[k] : k \in DOMAIN q.patient_lookup} IN
    [total_patients |-> Cardinality(DOMAIN q.patient_lookup),
     priority_breakdown |->
        [pr \in CRITICAL..NON_URGENT |->
            Cardinality({k \in DOMAIN q.patient_lookup :
                            pats[q.patient_lookup[k]].priority = pr})]]

-----------------------------------------------------------------------------
(* DoctorAssignmentSystem: docs = doctors, asg = patient_assignments       *)

\* add_doctor
add_doctor(docs, doctor_id, max_patients) ==
    Put(docs, doctor_id,
        [max_patients |-> max_patients, current_load |-> 0, patients_today |-> 0])

\* _calculate_assignment_score
DoctorAssignmentScore(doctor_info, patient) ==
    doctor_info.current_load * 100
      - (IF patient.priority = CRITICAL THEN 200
         ELSE IF patient.priority = EMERGENCY THEN 100 ELSE 0)

\* the first (score, id) pair of the sorted list, None when the list is empty
BestOf(available) ==
    IF available = {} THEN None
    ELSE (CHOOSE a \in available :
             \A b \in available :
                a[1] < b[1] \/ (a[1] = b[1] /\ a[2] <= b[2]))[2]

\* assign_patient with the capacity test off by one (<= for <)
assign_patient_overfull(docs, asg, pats, patient) ==
    LET available_doctors ==
            {<<DoctorAssignmentScore(docs[d], pats[patient]), d>> :
                d \in {x \in DOMAIN docs : docs[x].current_load <= docs[x].max_patients}}
        best_doctor_id == BestOf(available_doctors)
    IN IF available_doctors # {}
       THEN [doctors |-> [docs EXCEPT ![best_doctor_id].current_load = @ + 1],
             assignments |-> [asg EXCEPT ![best_doctor_id] = Append(@, patient)],
             patients |-> [pats EXCEPT ![patient].assigned_doctor = best_doctor_id],
             result |-> best_doctor_id]
       ELSE [doctors |-> docs, assignments |-> asg, patients |-> pats, result |-> None]

\* assign_patient: the doctors, the assignments and the patient objects
\* afterwards, and the doctor id returned
assign_patient(docs, asg, pats, patient) ==
    LET available_doctors ==
            {<<DoctorAssignmentScore(docs[d], pats[patient]), d>> :
                d \in {x \in DOMAIN docs : docs[x].current_load < docs[x].max_patients}}
        best_doctor_id == BestOf(available_doctors)
    IN IF available_doctors # {}
       THEN [doctors |-> [docs EXCEPT ![best_doctor_id].current_load = @ + 1],
             assignments |-> [asg EXCEPT ![best_doctor_id] = Append(@, patient)],
             patients |-> [pats EXCEPT ![patient].assigned_doctor = best_doctor_id],
             result |-> best_doctor_id]
       ELSE [doctors |-> docs, assignments |-> asg, patients |-> pats, result |-> None]

complete_consultation(docs, asg, pats, doctor_id, patient_id) ==
    IF doctor_id \in DOMAIN docs
    THEN LET Other(p) == pats[p].patient_id # patient_id IN
         [doctors |-> [docs EXCEPT ![doctor_id].current_load = Max(0, @ - 1),
                                   ![doctor_id].patients_today = @ + 1],
          assignments |-> [asg EXCEPT ![doctor_id] = SelectSeq(@, Other)]]
    ELSE [doctors |-> docs, assignments |-> asg]

-----------------------------------------------------------------------------
(* LabTest, TestPriority, TestStatus *)

TEST_EMERGENCY == 1
TEST_URGENT == 2
TEST_ROUTINE == 3

PENDING == "Pending"
IN_PROGRESS == "In Progress"
COMPLETED == "Completed"
CANCELLED == "Cancelled"

\* booking_date when test_data has no 'bookingDate'
NoDate == -1

\* _determine_priority: the first test whose name holds an emergency or an
\* urgent keyword decides
RECURSIVE _determine_priority(_)
_determine_priority(tests) ==
    IF tests = <<>> THEN TEST_ROUTINE
    ELSE IF Head(tests) \in {"cardiac", "blood_gas", "troponin", "emergency"}
    THEN TEST_EMERGENCY
    ELSE IF Head(tests) \in {"blood_sugar", "hemoglobin", "creatinine"}
    THEN TEST_URGENT
    ELSE _determine_priority(Tail(tests))

\* the test records the model submits: test_data of LabTest.__init__
TestDataInputs ==
    [testId : TestIds,
     tests : {<<"troponin">>, <<"hemoglobin">>, <<"lipid">>},
     bookingDate : {NoDate}]

LabTest(d) ==
    [test_id |-> d.testId,
     tests |-> d.tests,
     booking_date |-> d.bookingDate,
     status |-> PENDING,
     priority |-> _determine_priority(d.tests),
     estimated_duration |-> Len(d.tests) * 15,
     assigned_technician |-> None]

-----------------------------------------------------------------------------
(* LabTestPriorityQueue: q = [heap, index, test_lookup]; tests is the list *)
(* of LabTest objects the tuples refer to                                  *)

NewLabQueue == [heap |-> <<>>, index |-> 0, test_lookup |-> <<>>]

\* _calculate_priority_score at time t; a tick is ten hours, so
\* hours_waiting * 0.1 is 1 per tick
_calculate_priority_score(lab_test, t) ==
    lab_test.priority * 100
      - (IF lab_test.booking_date # NoDate
         THEN Min(t - lab_test.booking_date, 50) ELSE 0)

add_test(q, tests, lab_test, t) ==
    [heap |-> heappush(q.heap, <<_calculate_priority_score(tests[lab_test], t), q.index, lab_test>>),
     index |-> q.index + 1,
     test_lookup |-> Put(q.test_lookup, tests[lab_test].test_id, lab_test)]

get_next_test(q) == IF q.heap # <<>> THEN q.heap[1][3] ELSE None

\* pop_next_test: `del self.test_lookup[...]` raises KeyError, after the
\* heappop, when the id is not in test_lookup
pop_next_test(q, tests) ==
    IF q.heap # <<>>
    THEN LET it == q.heap[1]
             popped == [q EXCEPT !.heap = heappop(q.heap)]
         IN IF tests[it[3]].test_id \in DOMAIN q.test_lookup
            THEN [queue |-> [popped EXCEPT !.test_lookup =
                                Del(q.test_lookup, tests[it[3]].test_id)],
                  test |-> it[3], item |-> it, error |-> ""]
            ELSE [queue |-> popped, test |-> None, item |-> it, error |-> "KeyError"]
    ELSE [queue |-> q, test |-> None, item |-> <<>>, error |-> ""]

remove_test(q, tests, test_id) ==
    IF test_id \in DOMAIN q.test_lookup
    THEN [queue |-> [q EXCEPT !.test_lookup = Del(q.test_lookup, test_id)],
          tests |-> [tests EXCEPT ![q.test_lookup[test_id]].status = CANCELLED],
          result |-> TRUE]
    ELSE [queue |-> q, tests |-> tests, result |-> FALSE]

\* get_queue_status: active_tests is read off the heap list in list order
get_queue_status(q, tests) ==
    LET Active(it) == tests[it[3]].test_id \in DOMAIN q.test_lookup
        active_tests == SelectSeq(q.heap, Active)
    IN [total_tests |-> Len(active_tests),
        next_test |-> IF active_tests # <<>> THEN active_tests[1][3] ELSE None]

-----------------------------------------------------------------------------
(* TechnicianWorkloadBalancer: techs = technicians, asg = test_assignments *)

add_technician(techs, technician_id, max_concurrent) ==
    Put(techs, technician_id,
        [max_concurrent |-> max_concurrent, current_load |-> 0, total_tests_today |-> 0])

\* _calculate_assignment_score
TechnicianAssignmentScore(tech_info, lab_test) ==
    tech_info.current_load * 100
      + (IF lab_test.priority = TEST_EMERGENCY THEN tech_info.current_load * 50 ELSE 0)

\* assign_test that takes the last of the sorted (score, id) pairs with the
\* best score: a tie goes to the largest technician id
assign_test_last(techs, asg, tests, lab_test) ==
    LET available_technicians ==
            {<<TechnicianAssignmentScore(techs[x], tests[lab_test]), 0 - x>> :
                x \in {y \in DOMAIN techs : techs[y].current_load < techs[y].max_concurrent}}
        best_tech_id == 0 - BestOf(available_technicians)
    IN IF available_technicians # {}
       THEN [technicians |-> [techs EXCEPT ![best_tech_id].current_load = @ + 1],
             assignments |-> [asg EXCEPT ![best_tech_id] = Append(@, lab_test)],
             tests |-> [tests EXCEPT ![lab_test].assigned_technician = best_tech_id],
             result |-> best_tech_id]
       ELSE [technicians |-> techs, assignments |-> asg, tests |-> tests, result |-> None]

\* assign_test (_can_handle_test is always True)
assign_test(techs, asg, tests, lab_test) ==
    LET available_technicians ==
            {<<TechnicianAssignmentScore(techs[x], tests[lab_test]), x>> :
                x \in {y \in DOMAIN techs : techs[y].current_load < techs[y].max_concurrent}}
        best_tech_id == BestOf(available_technicians)
    IN IF available_technicians # {}
       THEN [technicians |-> [techs EXCEPT ![best_tech_id].current_load = @ + 1],
             assignments |-> [asg EXCEPT ![best_tech_id] = Append(@, lab_test)],
             tests |-> [tests EXCEPT ![lab_test].assigned_technician = best_tech_id],
             result |-> best_tech_id]
       ELSE [technicians |-> techs, assignments |-> asg, tests |-> tests, result |-> None]

\* TechnicianWorkloadBalancer.complete_test
balancer_complete_test(techs, asg, tests, technician_id, test_id) ==
    IF technician_id \in DOMAIN techs
    THEN LET Other(x) == tests[x].test_id # test_id IN
         [technicians |-> [techs EXCEPT ![technician_id].current_load = Max(0, @ - 1),
                                        ![technician_id].total_tests_today = @ + 1],
          assignments |-> [asg EXCEPT ![technician_id] = SelectSeq(@, Other)]]
    ELSE [technicians |-> techs, assignments |-> asg]

-----------------------------------------------------------------------------
(* LabTestQueue: rq = [queue, processing]                                  *)

NewRoutineQueue == [queue |-> <<>>, processing |-> <<>>]

enqueue(rq, lab_test) == [rq EXCEPT !.queue = Append(@, lab_test)]

\* dequeue that takes the test added last (pop for popleft)
dequeue_last(rq) ==
    IF rq.queue # <<>>
    THEN [queue |-> [rq EXCEPT !.queue = SubSeq(@, 1, Len(@) - 1)],
          test |-> rq.queue[Len(rq.queue)]]
    ELSE [queue |-> rq, test |-> None]

\* dequeue: the queue afterwards and the test returned
dequeue(rq) ==
    IF rq.queue # <<>>
    THEN [queue |-> [rq EXCEPT !.queue = Tail(@)], test |-> Head(rq.queue)]
    ELSE [queue |-> rq, test |-> None]

start_processing(rq, test_id, technician_id) ==
    [rq EXCEPT !.processing =
        Put(@, test_id, [technician_id |-> technician_id, status |-> IN_PROGRESS])]

complete_processing(rq, test_id) ==
    IF test_id \in DOMAIN rq.processing
    THEN [rq EXCEPT !.processing[test_id].status = COMPLETED]
    ELSE rq

-----------------------------------------------------------------------------
(* State after construction *)

\* what the last call returned: an object (patient, test), a boolean, a
\* worker id, or the exception it raised; for discharge_patient and the
\* engine's complete_test, obj is the object the call found for its id
-----------------------------------------------------------------------------
(* medicine_dsa_engine.py: Medicine and MedicineInventoryPriorityQueue; a  *)
(* Medicine object is referred to by its position in medicines             *)

\* expiry_date when 'expiryInfo' has no 'expiryDate'
NoExpiry == -1000

\* the medicine records the model submits: the fields _calculate_urgency
\* reads; expiryDate is a naive datetime, given in days after now
MedicineDataInputs ==
    [currentStock : {0, 5, 20, 50}, minThreshold : {10}, reorderLevel : {30},
     expiryDate : {NoExpiry, -1, 200}, priority : {1, 3, 5}]

\* Medicine.__init__
Medicine(d) ==
    [current_stock |-> d.currentStock,
     min_threshold |-> d.minThreshold,
     reorder_level |-> d.reorderLevel,
     expiry_date |-> d.expiryDate,
     priority |-> d.priority]

\* MedicineInventoryPriorityQueue.__init__
NewMedicineQueue == [heap |-> <<>>, index |-> 0]

\* _calculate_urgency at day t
_calculate_urgency(medicine, t) ==
    LET stock == IF medicine.current_stock = 0 THEN 0
                 ELSE IF medicine.current_stock <= medicine.min_threshold THEN 10
                 ELSE IF medicine.current_stock <= medicine.reorder_level THEN 30
                 ELSE 100
        days_to_expiry == medicine.expiry_date - t
        expiry == IF medicine.expiry_date = NoExpiry THEN 0
                  ELSE IF days_to_expiry <= 0 THEN 0
                  ELSE IF days_to_expiry <= 30 THEN 5
                  ELSE IF days_to_expiry <= 90 THEN 20
                  ELSE 50
    IN stock + expiry + medicine.priority * 10

\* add_critical_medicine
add_critical_medicine(q, meds, medicine, t) ==
    [heap |-> heappush(q.heap, <<_calculate_urgency(meds[medicine], t), q.index, medicine>>),
     index |-> q.index + 1]

\* get_most_critical
get_most_critical(q) == IF q.heap # <<>> THEN q.heap[1][3] ELSE None

\* pop_most_critical: the queue afterwards, the medicine returned, its tuple
pop_most_critical(q) ==
    IF q.heap # <<>>
    THEN [queue |-> [q EXCEPT !.heap = heappop(q.heap)],
          medicine |-> q.heap[1][3], item |-> q.heap[1]]
    ELSE [queue |-> q, medicine |-> None, item |-> <<>>]

\* a thread inside a call of an engine: the statement it is at and its
\* local variables (the entity, the position of the scan of the workers,
\* the (score, id) pairs collected, the worker chosen)
Threads == 1..NumThreads
IdleThread == [pc |-> "idle", obj |-> None, scan |-> 0, available |-> {}, best |-> None]

Return(o, b, w, e) == [obj |-> o, ok |-> b, worker |-> w, err |-> e]
NoReturn == Return(None, FALSE, None, "")

\* the capacities of the workers 1..n that are registered, all with the
\* same capacity
WorkerConfigs == UNION {[1..n -> {c}] : n \in 0..NumWorkers, c \in 1..MaxCap}

RECURSIVE AddDoctors(_, _)
AddDoctors(cfg, n) ==
    IF n = 0 THEN <<>> ELSE add_doctor(AddDoctors(cfg, n - 1), n, cfg[n])

RECURSIVE AddTechnicians(_, _)
AddTechnicians(cfg, n) ==
    IF n = 0 THEN <<>> ELSE add_technician(AddTechnicians(cfg, n - 1), n, cfg[n])

\* the state after construction, with the doctors dcfg and the technicians
\* tcfg registered
Constructed(dcfg, tcfg) ==
    /\ now = 0
    /\ all_patients = <<>>
    /\ triage_queue = NewTriageQueue
    /\ doctors = AddDoctors(dcfg, Len(dcfg))
    /\ patient_assignments = [d \in DOMAIN dcfg |-> <<>>]
    /\ all_tests = <<>>
    /\ priority_queue = NewLabQueue
    /\ routine_queue = NewRoutineQueue
    /\ technicians = AddTechnicians(tcfg, Len(tcfg))
    /\ test_assignments = [x \in DOMAIN tcfg |-> <<>>]
    /\ medicines = <<>>
    /\ critical_queue = NewMedicineQueue
    /\ threads = [t \in Threads |-> IdleThread]
    /\ op = "init"
    /\ ret = NoReturn
    /\ item = <<>>

\* a queue on its own: no worker is involved
InitQueue == Constructed(<<>>, <<>>)

\* an engine or a worker pool, after the add_doctor / add_technician calls
InitWorkers == \E cfg \in WorkerConfigs : Constructed(cfg, cfg)

\* the patient side and the lab side share no state: a behaviour that uses
\* both is an interleaving of one behaviour of each, and the specifications
\* below explore the two sides one at a time
PatientSideIdle ==
    all_patients = <<>> /\ triage_queue = NewTriageQueue
LabSideIdle ==
    all_tests = <<>> /\ priority_queue = NewLabQueue /\ routine_queue = NewRoutineQueue

-----------------------------------------------------------------------------
(* Calls on a PatientTriagePriorityQueue *)

\* patient = Patient(d); triage_queue.add_patient(patient)
QueueAddPatient ==
    /\ LabSideIdle
    /\ \E d \in PatientDataInputs :
           /\ Len(all_patients) < MaxPatients
           /\ triage_queue.index < MaxCount
           /\ ~PatientInitRaises(d)
           /\ all_patients' = Append(all_patients, Patient(d))
           /\ triage_queue' = add_patient(triage_queue, all_patients', Len(all_patients'), now)
           /\ op' = "add_patient"
           /\ ret' = NoReturn
           /\ item' = <<>>
           /\ UNCHANGED <<now, medicine_vars, threads, doctors, patient_assignments, lab_vars>>

QueueGetNextPatient ==
    /\ LabSideIdle
    /\ LET r == get_next_patient(triage_queue, all_patients) IN
           /\ triage_queue' = r.queue
           /\ op' = "get_next_patient"
           /\ ret' = Return(r.patient, FALSE, None, "")
           /\ item' = r.item
           /\ UNCHANGED <<now, medicine_vars, threads, all_patients, doctors, patient_assignments, lab_vars>>

QueuePopNextPatient ==
    /\ LabSideIdle
    /\ LET r == pop_next_patient(triage_queue, all_patients) IN
           /\ triage_queue' = r.queue
           /\ op' = "pop_next_patient"
           /\ ret' = Return(r.patient, FALSE, None, "")
           /\ item' = r.item
           /\ UNCHANGED <<now, medicine_vars, threads, all_patients, doctors, patient_assignments, lab_vars>>

QueueRemovePatient ==
    /\ LabSideIdle
    /\ \E patient_id \in PatientIds :
           LET r == remove_patient(triage_queue, patient_id) IN
               /\ triage_queue' = r.queue
               /\ op' = "remove_patient"
               /\ ret' = Return(None, r.result, None, "")
               /\ item' = <<>>
               /\ UNCHANGED <<now, medicine_vars, threads, all_patients, doctors, patient_assignments, lab_vars>>

\* PatientManagementEngine.update_patient_vitals, which only calls
\* triage_queue.update_patient_priority
update_patient_vitals ==
    /\ LabSideIdle
    /\ \E patient_id \in PatientIds, new_vitals \in VitalsInputs :
           LET r == update_patient_priority(triage_queue, all_patients, patient_id, new_vitals, now) IN
               /\ triage_queue.index < MaxCount
               /\ triage_queue' = r.queue
               /\ all_patients' = r.patients
               /\ op' = "update_patient_vitals"
               /\ ret' = Return(None, r.result, None, "")
               /\ item' = <<>>
               /\ UNCHANGED <<now, medicine_vars, threads, doctors, patient_assignments, lab_vars>>

-----------------------------------------------------------------------------
(* Calls on a PatientManagementEngine *)

register_patient ==
    /\ LabSideIdle
    /\ \E d \in PatientDataInputs :
           /\ Len(all_patients) < MaxRegistered
           /\ triage_queue.index < MaxCount
           /\ IF PatientInitRaises(d)
              THEN /\ ret' = Return(None, FALSE, None, "AttributeError")
                   /\ UNCHANGED <<all_patients, triage_queue, doctors, patient_assignments>>
              ELSE LET pats1 == Append(all_patients, Patient(d))
                       patient == Len(pats1)
                       a == assign_patient(doctors, patient_assignments, pats1, patient)
                   IN /\ triage_queue' = add_patient(triage_queue, pats1, patient, now)
                      /\ all_patients' = a.patients
                      /\ doctors' = a.doctors
                      /\ patient_assignments' = a.assignments
                      /\ ret' = Return(patient, TRUE, a.result, "")
           /\ op' = "register_patient"
           /\ item' = <<>>
           /\ UNCHANGED <<now, medicine_vars, threads, lab_vars>>

call_next_patient ==
    /\ LabSideIdle
    /\ LET r == pop_next_patient(triage_queue, all_patients) IN
           /\ triage_queue' = r.queue
           /\ all_patients' = IF r.patient # None
                              THEN [all_patients EXCEPT ![r.patient].status = IN_CONSULTATION]
                              ELSE all_patients
           /\ op' = "call_next_patient"
           /\ ret' = Return(r.patient, FALSE,
                            IF r.patient # None THEN all_patients[r.patient].assigned_doctor ELSE None, "")
           /\ item' = r.item
           /\ UNCHANGED <<now, medicine_vars, threads, doctors, patient_assignments, lab_vars>>

\* the first patient of all_patients with this id, None when there is none
FirstPatient(pats, patient_id) ==
    IF \E i \in 1..Len(pats) : pats[i].patient_id = patient_id
    THEN CHOOSE i \in 1..Len(pats) :
            /\ pats[i].patient_id = patient_id
            /\ \A j \in 1..(i - 1) : pats[j].patient_id # patient_id
    ELSE None

discharge_patient ==
    /\ LabSideIdle
    /\ \E patient_id \in PatientIds :
           LET patient == FirstPatient(all_patients, patient_id) IN
           /\ IF patient # None
              THEN LET pats1 == [all_patients EXCEPT ![patient].status = DISCHARGED]
                       doctor == all_patients[patient].assigned_doctor
                       c == complete_consultation(doctors, patient_assignments, pats1,
                                                  doctor, patient_id)
                   IN /\ all_patients' = pats1
                      /\ IF doctor # None
                         THEN /\ doctors[doctor].patients_today < MaxToday
                              /\ doctors' = c.doctors
                              /\ patient_assignments' = c.assignments
                         ELSE UNCHANGED <<doctors, patient_assignments>>
                      /\ ret' = Return(patient, TRUE, None, "")
              ELSE /\ ret' = Return(None, FALSE, None, "")
                   /\ UNCHANGED <<all_patients, doctors, patient_assignments>>
           /\ op' = "discharge_patient"
           /\ item' = <<>>
           /\ UNCHANGED <<now, medicine_vars, threads, triage_queue, lab_vars>>

-----------------------------------------------------------------------------
(* Calls on a DoctorAssignmentSystem, with Patient objects of the caller   *)

\* a Patient object as update_patient_priority leaves it
WithVitals(p, new_vitals) ==
    [[p EXCEPT !.vital_signs = new_vitals] EXCEPT
        !.priority = _calculate_priority([p EXCEPT !.vital_signs = new_vitals])]

\* the Patient objects the model hands to assign_patient: as constructed
\* (CRITICAL) and after an update of the vital signs (EMERGENCY, NON_URGENT)
PatientObjects ==
    {Patient(d) : d \in {x \in PatientDataInputs : x.vitalSigns = VitalsSevere}}
      \cup {WithVitals(Patient(d), v) :
               d \in {x \in PatientDataInputs : x.vitalSigns = VitalsSevere},
               v \in {VitalsNormal, VitalsPain}}

\* patient = <a Patient object>; doctor_assignment.assign_patient(patient)
PoolAssignPatient ==
    /\ LabSideIdle
    /\ \E p \in PatientObjects :
        LET pats1 == Append(all_patients, p)
            patient == Len(pats1)
            a == assign_patient(doctors, patient_assignments, pats1, patient)
        IN /\ Len(all_patients) < MaxRegistered
           /\ all_patients' = a.patients
           /\ doctors' = a.doctors
           /\ patient_assignments' = a.assignments
           /\ op' = "assign_patient"
           /\ ret' = Return(patient, FALSE, a.result, "")
           /\ item' = <<>>
           /\ UNCHANGED <<now, medicine_vars, threads, triage_queue, lab_vars>>

PoolCompleteConsultation ==
    /\ LabSideIdle
    /\ \E doctor_id \in WorkerIds, patient_id \in PatientIds :
           LET c == complete_consultation(doctors, patient_assignments, all_patients,
                                          doctor_id, patient_id)
           IN /\ doctor_id \in DOMAIN doctors => doctors[doctor_id].patients_today < MaxToday
              /\ doctors' = c.doctors
              /\ patient_assignments' = c.assignments
              /\ op' = "complete_consultation"
              /\ ret' = NoReturn
              /\ item' = <<>>
              /\ UNCHANGED <<now, medicine_vars, threads, all_patients, triage_queue, lab_vars>>

-----------------------------------------------------------------------------
(* Calls on a LabTestPriorityQueue *)

\* lab_test = LabTest(d); priority_queue.add_test(lab_test)
QueueAddTest ==
    /\ PatientSideIdle
    /\ \E d \in TestDataInputs :
           /\ Len(all_tests) < MaxTests
           /\ priority_queue.index < MaxCount
           /\ all_tests' = Append(all_tests, LabTest(d))
           /\ priority_queue' = add_test(priority_queue, all_tests', Len(all_tests'), now)
           /\ op' = "add_test"
           /\ ret' = NoReturn
           /\ item' = <<>>
           /\ UNCHANGED <<now, medicine_vars, threads, routine_queue, technicians, test_assignments, patient_vars>>

QueueGetNextTest ==
    /\ PatientSideIdle
    /\ op' = "get_next_test"
    /\ ret' = Return(get_next_test(priority_queue), FALSE, None, "")
    /\ item' = IF priority_queue.heap # <<>> THEN priority_queue.heap[1] ELSE <<>>
    /\ UNCHANGED <<now, medicine_vars, threads, lab_vars, patient_vars>>

QueuePopNextTest ==
    /\ PatientSideIdle
    /\ LET r == pop_next_test(priority_queue, all_tests) IN
           /\ priority_queue' = r.queue
           /\ op' = "pop_next_test"
           /\ ret' = Return(r.test, FALSE, None, r.error)
           /\ item' = r.item
           /\ UNCHANGED <<now, medicine_vars, threads, all_tests, routine_queue, technicians, test_assignments, patient_vars>>

QueueRemoveTest ==
    /\ PatientSideIdle
    /\ \E test_id \in TestIds :
           LET r == remove_test(priority_queue, all_tests, test_id) IN
               /\ priority_queue' = r.queue
               /\ all_tests' = r.tests
               /\ op' = "remove_test"
               /\ ret' = Return(None, r.result, None, "")
               /\ item' = <<>>
               /\ UNCHANGED <<now, medicine_vars, threads, routine_queue, technicians, test_assignments, patient_vars>>

-----------------------------------------------------------------------------
(* Calls on a TechnicianWorkloadBalancer, with LabTest objects of the caller *)

\* lab_test = LabTest(d); workload_balancer.assign_test(lab_test)
PoolAssignTest ==
    /\ PatientSideIdle
    /\ \E d \in TestDataInputs :
        LET tests1 == Append(all_tests, LabTest(d))
            lab_test == Len(tests1)
            a == assign_test(technicians, test_assignments, tests1, lab_test)
        IN /\ Len(all_tests) < MaxRegistered
           /\ d.tests # <<"hemoglobin">>
           /\ all_tests' = a.tests
           /\ technicians' = a.technicians
           /\ test_assignments' = a.assignments
           /\ op' = "assign_test"
           /\ ret' = Return(lab_test, FALSE, a.result, "")
           /\ item' = <<>>
           /\ UNCHANGED <<now, medicine_vars, threads, priority_queue, routine_queue, patient_vars>>

PoolCompleteTest ==
    /\ PatientSideIdle
    /\ \E technician_id \in WorkerIds, test_id \in TestIds :
           LET c == balancer_complete_test(technicians, test_assignments, all_tests,
                                           technician_id, test_id)
           IN /\ technician_id \in DOMAIN technicians =>
                    technicians[technician_id].total_tests_today < MaxToday
              /\ technicians' = c.technicians
              /\ test_assignments' = c.assignments
              /\ op' = "complete_test"
              /\ ret' = NoReturn
              /\ item' = <<>>
              /\ UNCHANGED <<now, medicine_vars, threads, all_tests, priority_queue, routine_queue, patient_vars>>

-----------------------------------------------------------------------------
(* Calls on a LabTechnicianEngine *)

\* LabTechnicianEngine.add_test
engine_add_test ==
    /\ PatientSideIdle
    /\ \E d \in TestDataInputs :
           LET tests1 == Append(all_tests, LabTest(d))
               lab_test == Len(tests1)
               prio == tests1[lab_test].priority \in {TEST_EMERGENCY, TEST_URGENT}
               a == assign_test(technicians, test_assignments, tests1, lab_test)
           IN /\ Len(all_tests) < MaxRegistered
              /\ IF prio
                 THEN /\ priority_queue' = add_test(priority_queue, tests1, lab_test, now)
                      /\ UNCHANGED routine_queue
                 ELSE /\ routine_queue' = enqueue(routine_queue, lab_test)
                      /\ UNCHANGED priority_queue
              /\ all_tests' = a.tests
              /\ technicians' = a.technicians
              /\ test_assignments' = a.assignments
              /\ op' = "add_test"
              /\ ret' = Return(lab_test, prio, a.result, "")
              /\ item' = <<>>
              /\ UNCHANGED <<now, medicine_vars, threads, patient_vars>>

process_next_test ==
    /\ PatientSideIdle
    /\ LET r == pop_next_test(priority_queue, all_tests)
           dq == IF r.test = None THEN dequeue(routine_queue)
                 ELSE [queue |-> routine_queue, test |-> None]
           next_test == IF r.test # None THEN r.test ELSE dq.test
           started == next_test # None /\ all_tests[next_test].assigned_technician # None
       IN /\ priority_queue' = r.queue
          /\ IF r.error # ""
             THEN /\ ret' = Return(None, FALSE, None, r.error)
                  /\ UNCHANGED <<all_tests, routine_queue>>
             ELSE /\ routine_queue' =
                       IF started
                       THEN start_processing(dq.queue, all_tests[next_test].test_id,
                                             all_tests[next_test].assigned_technician)
                       ELSE dq.queue
                  /\ all_tests' = IF started
                                  THEN [all_tests EXCEPT ![next_test].status = IN_PROGRESS]
                                  ELSE all_tests
                  /\ ret' = IF started
                            THEN Return(next_test, TRUE,
                                        all_tests[next_test].assigned_technician, "")
                            ELSE NoReturn
          /\ op' = "process_next_test"
          /\ item' = IF r.item # <<>> THEN r.item
                     ELSE IF dq.test # None THEN <<0, 0, dq.test>> ELSE <<>>
          /\ UNCHANGED <<now, medicine_vars, threads, technicians, test_assignments, patient_vars>>

\* the first test of all_tests with this id, None when there is none
FirstTest(tests, test_id) ==
    IF \E i \in 1..Len(tests) : tests[i].test_id = test_id
    THEN CHOOSE i \in 1..Len(tests) :
            /\ tests[i].test_id = test_id
            /\ \A j \in 1..(i - 1) : tests[j].test_id # test_id
    ELSE None

\* LabTechnicianEngine.complete_test
engine_complete_test ==
    /\ PatientSideIdle
    /\ \E test_id \in TestIds :
           LET test == FirstTest(all_tests, test_id) IN
           /\ IF test # None
              THEN LET tests1 == [all_tests EXCEPT ![test].status = COMPLETED]
                       tech == all_tests[test].assigned_technician
                       c == balancer_complete_test(technicians, test_assignments, tests1,
                                                   tech, test_id)
                   IN /\ all_tests' = tests1
                      /\ routine_queue' = complete_processing(routine_queue, test_id)
                      /\ IF tech # None
                         THEN /\ technicians[tech].total_tests_today < MaxToday
                              /\ technicians' = c.technicians
                              /\ test_assignments' = c.assignments
                         ELSE UNCHANGED <<technicians, test_assignments>>
                      /\ ret' = Return(test, TRUE, None, "")
              ELSE /\ ret' = Return(None, FALSE, None, "")
                   /\ UNCHANGED <<all_tests, routine_queue, technicians, test_assignments>>
           /\ op' = "complete_test"
           /\ item' = <<>>
           /\ UNCHANGED <<now, medicine_vars, threads, priority_queue, patient_vars>>

-----------------------------------------------------------------------------
(* Specifications *)

PatientQueueNext ==
    \/ QueueAddPatient
    \/ QueueGetNextPatient
    \/ QueuePopNextPatient
    \/ QueueRemovePatient
    \/ update_patient_vitals

LabQueueNext ==
    \/ QueueAddTest
    \/ QueueGetNextTest
    \/ QueuePopNextTest
    \/ QueueRemoveTest

PatientPoolNext ==
    \/ PoolAssignPatient
    \/ PoolCompleteConsultation

LabPoolNext ==
    \/ PoolAssignTest
    \/ PoolCompleteTest

PatientEngineNext ==
    \/ register_patient
    \/ call_next_patient
    \/ update_patient_vitals
    \/ discharge_patient

LabEngineNext ==
    \/ engine_add_test
    \/ process_next_test
    \/ engine_complete_test

QueuesNext == PatientQueueNext \/ LabQueueNext
PoolsNext == PatientPoolNext \/ LabPoolNext
EnginesNext == PatientEngineNext \/ LabEngineNext

\* the two priority queues on their own
SpecQueues == InitQueue /\ [][QueuesNext]_vars
\* the two worker pools on their own
SpecPools == InitWorkers /\ [][PoolsNext]_vars
\* the two engines
SpecEngines == InitWorkers /\ [][EnginesNext]_vars

-----------------------------------------------------------------------------
(* The priority score as a function of the patient: two Patient objects,   *)
(* each as Patient.__init__ and an update of the vital signs leave it, are *)
(* scored at the same time                                                 *)

\* readings of every severity band of _calculate_priority: severity 20
\* (SEMI_URGENT), 55 (URGENT), 78 (EMERGENCY), 25 with oxygen below 85 (CRITICAL)
VitalsMild == [DefaultVitals EXCEPT !.temperature = 1040]
VitalsFever ==
    [DefaultVitals EXCEPT !.temperature = 1040, !.bp_systolic = 190, !.heart_rate = 130]
VitalsGrave ==
    [DefaultVitals EXCEPT !.temperature = 1040, !.bp_systolic = 190, !.heart_rate = 130,
                          !.respiratory_rate = 22, !.oxygen_saturation = 93]
VitalsHypoxia == [DefaultVitals EXCEPT !.oxygen_saturation = 80]

ScoreVitals ==
    {VitalsNormal, VitalsMild, VitalsPain, VitalsFever, VitalsGrave,
     VitalsHypoxia, VitalsSevere, VitalsComa}

\* patient_data with which Patient.__init__ completes: every combination of
\* the three flags, arrival 12, 7 and 0 hours before the scoring
ScoreDataInputs ==
    [patientId : {1}, vitalSigns : {VitalsSevere},
     arrivalTime : {0, 5, MaxHours},
     isAmbulanceArrival : BOOLEAN, traumaAlert : BOOLEAN,
     infectiousDiseaseAlert : BOOLEAN, chestComplaint : BOOLEAN,
     age : {40}, medicalHistoryLen : {0}]

ScoreObjects == {WithVitals(Patient(d), v) : d \in ScoreDataInputs, v \in ScoreVitals}

InitScores ==
    /\ now = MaxHours
    /\ all_patients \in {<<a, b>> : a \in ScoreObjects, b \in ScoreObjects}
    /\ triage_queue = NewTriageQueue
    /\ doctors = <<>>
    /\ patient_assignments = <<>>
    /\ all_tests = <<>>
    /\ priority_queue = NewLabQueue
    /\ routine_queue = NewRoutineQueue
    /\ technicians = <<>>
    /\ test_assignments = <<>>
    /\ medicines = <<>>
    /\ critical_queue = NewMedicineQueue
    /\ threads = [t \in Threads |-> IdleThread]
    /\ op = "init"
    /\ ret = NoReturn
    /\ item = <<>>

\* item = (all_patients[0].get_priority_score(), all_patients[1].get_priority_score())
ComparePriorityScores ==
    /\ op = "init"
    /\ op' = "get_priority_score"
    /\ item' = <<get_priority_score(all_patients[1], now),
                 get_priority_score(all_patients[2], now)>>
    /\ ret' = NoReturn
    /\ UNCHANGED <<now, medicine_vars, threads, patient_vars, lab_vars>>

ScoresNext == ComparePriorityScores

\* the priority score of two patients
SpecScores == InitScores /\ [][ScoresNext]_vars

-----------------------------------------------------------------------------
(* Calls on a MedicineInventoryPriorityQueue *)

\* medicine = Medicine(d); critical_queue.add_critical_medicine(medicine)
QueueAddCriticalMedicine ==
    \E d \in MedicineDataInputs :
        /\ Len(medicines) < MaxMedicines
        /\ medicines' = Append(medicines, Medicine(d))
        /\ critical_queue' = add_critical_medicine(critical_queue, medicines',
                                                   Len(medicines'), now)
        /\ op' = "add_critical_medicine"
        /\ ret' = Return(Len(medicines'), TRUE, None, "")
        /\ item' = <<>>
        /\ UNCHANGED <<now, threads, patient_vars, lab_vars>>

\* critical_queue.get_most_critical()
QueueGetMostCritical ==
    /\ op' = "get_most_critical"
    /\ ret' = Return(get_most_critical(critical_queue), TRUE, None, "")
    /\ item' = <<>>
    /\ UNCHANGED <<now, medicine_vars, threads, patient_vars, lab_vars>>

\* critical_queue.pop_most_critical()
QueuePopMostCritical ==
    LET r == pop_most_critical(critical_queue) IN
    /\ critical_queue' = r.queue
    /\ op' = "pop_most_critical"
    /\ ret' = Return(r.medicine, TRUE, None, "")
    /\ item' = r.item
    /\ UNCHANGED <<now, threads, medicines, patient_vars, lab_vars>>

MedicineNext ==
    \/ QueueAddCriticalMedicine
    \/ QueueGetMostCritical
    \/ QueuePopMostCritical

\* the critical-medicine queue on its own
SpecMedicine == InitQueue /\ [][MedicineNext]_vars

-----------------------------------------------------------------------------
(* The engines called from several threads. Neither engine takes a lock,   *)
(* so a thread may be suspended between any two statements: each action    *)
(* below is one statement that reads or writes shared state, with the      *)
(* statements on local variables that precede it. op, ret and item are set *)
(* when a call returns or raises.                                          *)

\* the threads that are inside a call
BusyThreads == {t \in Threads : threads[t].pc # "idle"}

\* the records the threads submit: one patient or test id for each thread
ThreadPatientInputs ==
    {d \in PatientDataInputs : d.patientId <= NumThreads /\ d.vitalSigns = VitalsSevere}
ThreadTestInputs ==
    {d \in TestDataInputs : d.testId <= NumThreads /\ d.tests \in {<<"troponin">>, <<"lipid">>}}

\* register_patient, lines 470-471: patient = Patient(patient_data);
\* self.all_patients.append(patient)
ThreadRegisterPatient ==
    /\ LabSideIdle
    /\ \E t \in Threads, d \in ThreadPatientInputs :
           /\ threads[t].pc = "idle"
           /\ Len(all_patients) < MaxRegistered
           /\ triage_queue.index < MaxCount
           /\ ~PatientInitRaises(d)
           /\ all_patients' = Append(all_patients, Patient(d))
           /\ threads' = [threads EXCEPT ![t] =
                 [IdleThread EXCEPT !.pc = "add_patient_push", !.obj = Len(all_patients) + 1]]
           /\ UNCHANGED <<now, medicine_vars, triage_queue, doctors, patient_assignments,
                          lab_vars, op, ret, item>>

\* add_patient, lines 197-198: the score and heapq.heappush with self.index
ThreadAddPatientPush ==
    \E t \in Threads :
        /\ threads[t].pc = "add_patient_push"
        /\ triage_queue' = [triage_queue EXCEPT !.heap =
              heappush(@, <<get_priority_score(all_patients[threads[t].obj], now),
                            triage_queue.index, threads[t].obj>>)]
        /\ threads' = [threads EXCEPT ![t].pc = "add_patient_lookup"]
        /\ UNCHANGED <<now, medicine_vars, all_patients, doctors, patient_assignments,
                       lab_vars, op, ret, item>>

\* add_patient, line 199: self.patient_lookup[patient.patient_id] = patient
ThreadAddPatientLookup ==
    \E t \in Threads :
        /\ threads[t].pc = "add_patient_lookup"
        /\ triage_queue' = [triage_queue EXCEPT !.patient_lookup =
              Put(@, all_patients[threads[t].obj].patient_id, threads[t].obj)]
        /\ threads' = [threads EXCEPT ![t].pc = "add_patient_index"]
        /\ UNCHANGED <<now, medicine_vars, all_patients, doctors, patient_assignments,
                       lab_vars, op, ret, item>>

\* add_patient, line 200: self.index += 1; then assign_patient, line 310
ThreadAddPatientIndex ==
    \E t \in Threads :
        /\ threads[t].pc = "add_patient_index"
        /\ triage_queue' = [triage_queue EXCEPT !.index = @ + 1]
        /\ threads' = [threads EXCEPT ![t].pc = "assign_patient_scan", ![t].scan = 1]
        /\ UNCHANGED <<now, medicine_vars, all_patients, doctors, patient_assignments,
                       lab_vars, op, ret, item>>

\* assign_patient, lines 312-316: one turn of the loop over self.doctors
ThreadAssignPatientScan ==
    \E t \in Threads :
        LET d == threads[t].scan IN
        /\ threads[t].pc = "assign_patient_scan"
        /\ d <= Len(doctors)
        /\ threads' = [threads EXCEPT ![t].scan = d + 1,
              ![t].available =
                 IF doctors[d].current_load < doctors[d].max_patients
                 THEN @ \cup {<<DoctorAssignmentScore(doctors[d], all_patients[threads[t].obj]), d>>}
                 ELSE @]
        /\ UNCHANGED <<now, medicine_vars, patient_vars, lab_vars, op, ret, item>>

\* assign_patient, lines 318-324 after the loop: the sort and
\* self.doctors[best_doctor_id]['current_load'] += 1; with no doctor
\* available, line 330 and the return of register_patient
ThreadAssignPatientPick ==
    \E t \in Threads :
        LET best_doctor_id == BestOf(threads[t].available) IN
        /\ threads[t].pc = "assign_patient_scan"
        /\ threads[t].scan > Len(doctors)
        /\ IF threads[t].available # {}
           THEN /\ doctors' = [doctors EXCEPT ![best_doctor_id].current_load = @ + 1]
                /\ threads' = [threads EXCEPT ![t].pc = "assign_patient_append",
                                              ![t].best = best_doctor_id]
                /\ UNCHANGED <<op, ret, item>>
           ELSE /\ threads' = [threads EXCEPT ![t] = IdleThread]
                /\ op' = "register_patient"
                /\ ret' = Return(threads[t].obj, TRUE, None, "")
                /\ item' = <<>>
                /\ UNCHANGED doctors
        /\ UNCHANGED <<now, medicine_vars, all_patients, triage_queue, patient_assignments,
                       lab_vars>>

\* assign_patient, line 325: self.patient_assignments[best_doctor_id].append(patient)
ThreadAssignPatientAppend ==
    \E t \in Threads :
        /\ threads[t].pc = "assign_patient_append"
        /\ patient_assignments' =
              [patient_assignments EXCEPT ![threads[t].best] = Append(@, threads[t].obj)]
        /\ threads' = [threads EXCEPT ![t].pc = "assign_patient_mark"]
        /\ UNCHANGED <<now, medicine_vars, all_patients, triage_queue, doctors,
                       lab_vars, op, ret, item>>

\* assign_patient, lines 326-328, and the return of register_patient
ThreadAssignPatientMark ==
    \E t \in Threads :
        /\ threads[t].pc = "assign_patient_mark"
        /\ all_patients' =
              [all_patients EXCEPT ![threads[t].obj].assigned_doctor = threads[t].best]
        /\ threads' = [threads EXCEPT ![t] = IdleThread]
        /\ op' = "register_patient"
        /\ ret' = Return(threads[t].obj, TRUE, threads[t].best, "")
        /\ item' = <<>>
        /\ UNCHANGED <<now, medicine_vars, triage_queue, doctors, patient_assignments,
                       lab_vars>>

\* call_next_patient and pop_next_patient, line 215: while self.heap, at
\* the start of the call and after a stale entry
ThreadPopTest ==
    /\ LabSideIdle
    /\ \E t \in Threads :
           /\ threads[t].pc \in {"idle", "pop_test"}
           /\ IF triage_queue.heap # <<>>
              THEN /\ threads' = [threads EXCEPT ![t] = [IdleThread EXCEPT !.pc = "pop_heappop"]]
                   /\ UNCHANGED <<op, ret, item>>
              ELSE /\ threads' = [threads EXCEPT ![t] = IdleThread]
                   /\ op' = "call_next_patient"
                   /\ ret' = Return(None, FALSE, None, "")
                   /\ item' = <<>>
           /\ UNCHANGED <<now, medicine_vars, patient_vars, lab_vars>>

\* pop_next_patient, line 216: heapq.heappop(self.heap), which raises
\* IndexError on a list that was emptied since the test of line 215
ThreadPopHeappop ==
    \E t \in Threads :
        /\ threads[t].pc = "pop_heappop"
        /\ IF triage_queue.heap # <<>>
           THEN /\ triage_queue' = [triage_queue EXCEPT !.heap = heappop(@)]
                /\ threads' = [threads EXCEPT ![t].pc = "pop_check",
                                              ![t].obj = triage_queue.heap[1][3]]
                /\ UNCHANGED <<op, ret, item>>
           ELSE /\ threads' = [threads EXCEPT ![t] = IdleThread]
                /\ op' = "call_next_patient"
                /\ ret' = Return(None, FALSE, None, "IndexError")
                /\ item' = <<>>
                /\ UNCHANGED triage_queue
        /\ UNCHANGED <<now, medicine_vars, all_patients, doctors, patient_assignments, lab_vars>>

\* pop_next_patient, line 217: if patient.patient_id in self.patient_lookup
ThreadPopCheck ==
    \E t \in Threads :
        /\ threads[t].pc = "pop_check"
        /\ threads' = [threads EXCEPT ![t].pc =
              IF all_patients[threads[t].obj].patient_id \in DOMAIN triage_queue.patient_lookup
              THEN "pop_del" ELSE "pop_test"]
        /\ UNCHANGED <<now, medicine_vars, patient_vars, lab_vars, op, ret, item>>

\* pop_next_patient, line 218: del self.patient_lookup[patient.patient_id],
\* which raises KeyError when the id was deleted since the test of line 217
ThreadPopDel ==
    \E t \in Threads :
        LET patient_id == all_patients[threads[t].obj].patient_id IN
        /\ threads[t].pc = "pop_del"
        /\ IF patient_id \in DOMAIN triage_queue.patient_lookup
           THEN /\ triage_queue' = [triage_queue EXCEPT !.patient_lookup = Del(@, patient_id)]
                /\ threads' = [threads EXCEPT ![t].pc = "call_status"]
                /\ UNCHANGED <<op, ret, item>>
           ELSE /\ threads' = [threads EXCEPT ![t] = IdleThread]
                /\ op' = "call_next_patient"
                /\ ret' = Return(None, FALSE, None, "KeyError")
                /\ item' = <<>>
                /\ UNCHANGED triage_queue
        /\ UNCHANGED <<now, medicine_vars, all_patients, doctors, patient_assignments, lab_vars>>

\* pop_next_patient, line 219, and call_next_patient, lines 519-534: the
\* status and the return
ThreadCallStatus ==
    \E t \in Threads :
        /\ threads[t].pc = "call_status"
        /\ all_patients' = [all_patients EXCEPT ![threads[t].obj].status = IN_CONSULTATION]
        /\ threads' = [threads EXCEPT ![t] = IdleThread]
        /\ op' = "call_next_patient"
        /\ ret' = Return(threads[t].obj, FALSE,
                         all_patients[threads[t].obj].assigned_doctor, "")
        /\ item' = <<>>
        /\ UNCHANGED <<now, medicine_vars, triage_queue, doctors, patient_assignments,
                       lab_vars>>

\* LabTechnicianEngine.add_test, lines 377-381: lab_test = LabTest(test_data);
\* self.all_tests.append(lab_test); the queue is chosen by the priority
ThreadAddTest ==
    /\ PatientSideIdle
    /\ \E t \in Threads, d \in ThreadTestInputs :
           /\ threads[t].pc = "idle"
           /\ Len(all_tests) < MaxRegistered
           /\ all_tests' = Append(all_tests, LabTest(d))
           /\ threads' = [threads EXCEPT ![t] =
                 [IdleThread EXCEPT
                    !.pc = IF LabTest(d).priority \in {TEST_EMERGENCY, TEST_URGENT}
                           THEN "add_test_push" ELSE "enqueue",
                    !.obj = Len(all_tests) + 1]]
           /\ UNCHANGED <<now, medicine_vars, priority_queue, routine_queue, technicians,
                          test_assignments, patient_vars, op, ret, item>>

\* LabTestPriorityQueue.add_test, lines 84-85: the score and heapq.heappush
ThreadAddTestPush ==
    \E t \in Threads :
        /\ threads[t].pc = "add_test_push"
        /\ priority_queue' = [priority_queue EXCEPT !.heap =
              heappush(@, <<_calculate_priority_score(all_tests[threads[t].obj], now),
                            priority_queue.index, threads[t].obj>>)]
        /\ threads' = [threads EXCEPT ![t].pc = "add_test_lookup"]
        /\ UNCHANGED <<now, medicine_vars, all_tests, routine_queue, technicians,
                       test_assignments, patient_vars, op, ret, item>>

\* LabTestPriorityQueue.add_test, line 86: self.test_lookup[lab_test.test_id] = lab_test
ThreadAddTestLookup ==
    \E t \in Threads :
        /\ threads[t].pc = "add_test_lookup"
        /\ priority_queue' = [priority_queue EXCEPT !.test_lookup =
              Put(@, all_tests[threads[t].obj].test_id, threads[t].obj)]
        /\ threads' = [threads EXCEPT ![t].pc = "add_test_index"]
        /\ UNCHANGED <<now, medicine_vars, all_tests, routine_queue, technicians,
                       test_assignments, patient_vars, op, ret, item>>

\* LabTestPriorityQueue.add_test, line 87: self.index += 1; then assign_test
ThreadAddTestIndex ==
    \E t \in Threads :
        /\ threads[t].pc = "add_test_index"
        /\ priority_queue' = [priority_queue EXCEPT !.index = @ + 1]
        /\ threads' = [threads EXCEPT ![t].pc = "assign_test_scan", ![t].scan = 1]
        /\ UNCHANGED <<now, medicine_vars, all_tests, routine_queue, technicians,
                       test_assignments, patient_vars, op, ret, item>>

\* LabTestQueue.enqueue, line 246: self.queue.append(lab_test); then assign_test
ThreadEnqueue ==
    \E t \in Threads :
        /\ threads[t].pc = "enqueue"
        /\ routine_queue' = enqueue(routine_queue, threads[t].obj)
        /\ threads' = [threads EXCEPT ![t].pc = "assign_test_scan", ![t].scan = 1]
        /\ UNCHANGED <<now, medicine_vars, all_tests, priority_queue, technicians,
                       test_assignments, patient_vars, op, ret, item>>

\* assign_test, lines 169-176: one turn of the loop over self.technicians
ThreadAssignTestScan ==
    \E t \in Threads :
        LET x == threads[t].scan IN
        /\ threads[t].pc = "assign_test_scan"
        /\ x <= Len(technicians)
        /\ threads' = [threads EXCEPT ![t].scan = x + 1,
              ![t].available =
                 IF technicians[x].current_load < technicians[x].max_concurrent
                 THEN @ \cup {<<TechnicianAssignmentScore(technicians[x], all_tests[threads[t].obj]), x>>}
                 ELSE @]
        /\ UNCHANGED <<now, medicine_vars, patient_vars, lab_vars, op, ret, item>>

\* assign_test, lines 178-184 after the loop: the sort and
\* self.technicians[best_tech_id]['current_load'] += 1; with no technician
\* available, line 190 and the return of add_test
ThreadAssignTestPick ==
    \E t \in Threads :
        LET best_tech_id == BestOf(threads[t].available) IN
        /\ threads[t].pc = "assign_test_scan"
        /\ threads[t].scan > Len(technicians)
        /\ IF threads[t].available # {}
           THEN /\ technicians' = [technicians EXCEPT ![best_tech_id].current_load = @ + 1]
                /\ threads' = [threads EXCEPT ![t].pc = "assign_test_append",
                                              ![t].best = best_tech_id]
                /\ UNCHANGED <<op, ret, item>>
           ELSE /\ threads' = [threads EXCEPT ![t] = IdleThread]
                /\ op' = "add_test"
                /\ ret' = Return(threads[t].obj,
                                 all_tests[threads[t].obj].priority \in {TEST_EMERGENCY, TEST_URGENT},
                                 None, "")
                /\ item' = <<>>
                /\ UNCHANGED technicians
        /\ UNCHANGED <<now, medicine_vars, all_tests, priority_queue, routine_queue,
                       test_assignments, patient_vars>>

\* assign_test, line 185: self.test_assignments[best_tech_id].append(lab_test)
ThreadAssignTestAppend ==
    \E t \in Threads :
        /\ threads[t].pc = "assign_test_append"
        /\ test_assignments' =
              [test_assignments EXCEPT ![threads[t].best] = Append(@, threads[t].obj)]
        /\ threads' = [threads EXCEPT ![t].pc = "assign_test_mark"]
        /\ UNCHANGED <<now, medicine_vars, all_tests, priority_queue, routine_queue,
                       technicians, patient_vars, op, ret, item>>

\* assign_test, lines 186-188, and the return of add_test
ThreadAssignTestMark ==
    \E t \in Threads :
        /\ threads[t].pc = "assign_test_mark"
        /\ all_tests' =
              [all_tests EXCEPT ![threads[t].obj].assigned_technician = threads[t].best]
        /\ threads' = [threads EXCEPT ![t] = IdleThread]
        /\ op' = "add_test"
        /\ ret' = Return(threads[t].obj,
                         all_tests[threads[t].obj].priority \in {TEST_EMERGENCY, TEST_URGENT},
                         threads[t].best, "")
        /\ item' = <<>>
        /\ UNCHANGED <<now, medicine_vars, priority_queue, routine_queue, technicians,
                       test_assignments, patient_vars>>

\* update_patient_vitals, called while no thread is inside a call
QuietUpdatePatientVitals ==
    /\ LabSideIdle
    /\ BusyThreads = {}
    /\ \E patient_id \in Threads :
           LET r == update_patient_priority(triage_queue, all_patients, patient_id,
                                            VitalsComa, now) IN
               /\ triage_queue.index < MaxCount
               /\ triage_queue' = r.queue
               /\ all_patients' = r.patients
               /\ op' = "update_patient_vitals"
               /\ ret' = Return(None, r.result, None, "")
               /\ item' = <<>>
               /\ UNCHANGED <<now, medicine_vars, threads, doctors, patient_assignments, lab_vars>>

ThreadsNext ==
    \/ ThreadRegisterPatient
    \/ ThreadAddPatientPush
    \/ ThreadAddPatientLookup
    \/ ThreadAddPatientIndex
    \/ ThreadAssignPatientScan
    \/ ThreadAssignPatientPick
    \/ ThreadAssignPatientAppend
    \/ ThreadAssignPatientMark
    \/ ThreadPopTest
    \/ ThreadPopHeappop
    \/ ThreadPopCheck
    \/ ThreadPopDel
    \/ ThreadCallStatus
    \/ QuietUpdatePatientVitals
    \/ ThreadAddTest
    \/ ThreadAddTestPush
    \/ ThreadAddTestLookup
    \/ ThreadAddTestIndex
    \/ ThreadEnqueue
    \/ ThreadAssignTestScan
    \/ ThreadAssignTestPick
    \/ ThreadAssignTestAppend
    \/ ThreadAssignTestMark

\* the two engines called from NumThreads threads
SpecThreads == InitWorkers /\ [][ThreadsNext]_vars

-----------------------------------------------------------------------------
(* The analytics of the two engines; the result of a call is left in item *)

\* get_doctor_workload; utilization is rounded down to a whole per cent
get_doctor_workload(docs, asg) ==
    [d \in DOMAIN docs |->
        [current_load |-> docs[d].current_load,
         max_patients |-> docs[d].max_patients,
         utilization |-> (docs[d].current_load * 100) \div docs[d].max_patients,
         patients_today |-> docs[d].patients_today,
         assigned_patients |-> Len(asg[d])]]

\* get_technician_workload; utilization is rounded down to a whole per cent
get_technician_workload(techs, asg) ==
    [x \in DOMAIN techs |->
        [current_load |-> techs[x].current_load,
         max_concurrent |-> techs[x].max_concurrent,
         utilization |-> (techs[x].current_load * 100) \div techs[x].max_concurrent,
         tests_today |-> techs[x].total_tests_today,
         assigned_tests |-> Len(asg[x])]]

\* PatientManagementEngine.get_dashboard_data: the entries that depend on
\* the state; critical_alerts is given by the positions in all_patients
patient_dashboard_data(q, pats, docs, asg) ==
    [queue_statistics |-> get_queue_statistics(q, pats),
     doctor_workload |-> get_doctor_workload(docs, asg),
     status_distribution |->
        [st \in {WAITING, IN_CONSULTATION, DISCHARGED} |->
            Cardinality({i \in DOMAIN pats : pats[i].status = st})],
     total_patients_today |-> Len(pats),
     active_patients |->
        Cardinality({i \in DOMAIN pats : pats[i].status \in {WAITING, IN_CONSULTATION}}),
     critical_alerts |->
        {i \in DOMAIN pats : pats[i].priority = CRITICAL /\ pats[i].status = WAITING}]

\* LabTechnicianEngine.get_dashboard_data: the entries that depend on the state
lab_dashboard_data(q, rq, tests, techs, asg) ==
    [priority_queue |-> get_queue_status(q, tests),
     routine_queue_size |-> Len(rq.queue),
     total_pending |-> Cardinality({i \in DOMAIN tests : tests[i].status = PENDING}),
     in_progress |-> Cardinality({i \in DOMAIN tests : tests[i].status = IN_PROGRESS}),
     completed_today |-> Cardinality({i \in DOMAIN tests : tests[i].status = COMPLETED}),
     technician_workload |-> get_technician_workload(techs, asg)]

\* a get_queue_statistics that takes the stale entries off the top of the
\* heap first, as get_next_patient does
StatisticsPruning ==
    /\ LabSideIdle
    /\ triage_queue' = get_next_patient(triage_queue, all_patients).queue
    /\ op' = "get_queue_statistics"
    /\ ret' = NoReturn
    /\ item' = get_queue_statistics(triage_queue, all_patients)
    /\ UNCHANGED <<now, medicine_vars, threads, all_patients, doctors, patient_assignments,
                   lab_vars>>

\* triage_queue.get_queue_statistics()
Statistics ==
    /\ LabSideIdle
    /\ op' = "get_queue_statistics"
    /\ ret' = NoReturn
    /\ item' = get_queue_statistics(triage_queue, all_patients)
    /\ UNCHANGED <<now, medicine_vars, threads, patient_vars, lab_vars>>

\* doctor_assignment.get_doctor_workload()
DoctorWorkload ==
    /\ LabSideIdle
    /\ op' = "get_doctor_workload"
    /\ ret' = NoReturn
    /\ item' = get_doctor_workload(doctors, patient_assignments)
    /\ UNCHANGED <<now, medicine_vars, threads, patient_vars, lab_vars>>

\* PatientManagementEngine.get_dashboard_data()
PatientDashboard ==
    /\ LabSideIdle
    /\ op' = "patient_get_dashboard_data"
    /\ ret' = NoReturn
    /\ item' = patient_dashboard_data(triage_queue, all_patients, doctors, patient_assignments)
    /\ UNCHANGED <<now, medicine_vars, threads, patient_vars, lab_vars>>

\* priority_queue.get_queue_status()
QueueStatus ==
    /\ PatientSideIdle
    /\ op' = "get_queue_status"
    /\ ret' = NoReturn
    /\ item' = get_queue_status(priority_queue, all_tests)
    /\ UNCHANGED <<now, medicine_vars, threads, patient_vars, lab_vars>>

\* workload_balancer.get_technician_workload()
TechnicianWorkload ==
    /\ PatientSideIdle
    /\ op' = "get_technician_workload"
    /\ ret' = NoReturn
    /\ item' = get_technician_workload(technicians, test_assignments)
    /\ UNCHANGED <<now, medicine_vars, threads, patient_vars, lab_vars>>

\* LabTechnicianEngine.get_dashboard_data()
LabDashboard ==
    /\ PatientSideIdle
    /\ op' = "lab_get_dashboard_data"
    /\ ret' = NoReturn
    /\ item' = lab_dashboard_data(priority_queue, routine_queue, all_tests, technicians,
                                  test_assignments)
    /\ UNCHANGED <<now, medicine_vars, threads, patient_vars, lab_vars>>

AnalyticsNext ==
    \/ Statistics
    \/ DoctorWorkload
    \/ PatientDashboard
    \/ QueueStatus
    \/ TechnicianWorkload
    \/ LabDashboard

\* the two engines with their analytics
SpecAnalytics == InitWorkers /\ [][EnginesNext \/ AnalyticsNext]_vars

-----------------------------------------------------------------------------
(* Draining a triage queue: after any calls on the queue, pop_next_patient *)
(* is called again and again and nothing else is. item keeps what was live *)
(* when the draining began (the ids and the objects of patient_lookup) and *)
(* the patients returned since.                                            *)

Draining == op = "drain"

\* any call on the queue, before the draining begins
QueueCallBeforeDrain == ~Draining /\ PatientQueueNext

\* triage_queue.pop_next_patient() once more
DrainPopNextPatient ==
    LET r == pop_next_patient(triage_queue, all_patients)
        log == IF Draining THEN item
               ELSE [live |-> DOMAIN triage_queue.patient_lookup,
                     objs |-> {triage_queue.patient_lookup[k] :
                                  k \in DOMAIN triage_queue.patient_lookup},
                     returned |-> <<>>]
    IN /\ LabSideIdle
       /\ Len(log.returned) < Cardinality(log.live) + MaxExtraPops
       /\ triage_queue' = r.queue
       /\ op' = "drain"
       /\ ret' = Return(r.patient, FALSE, None, "")
       /\ item' = [log EXCEPT !.returned = Append(@, r.patient)]
       /\ UNCHANGED <<now, medicine_vars, threads, all_patients, doctors,
                      patient_assignments, lab_vars>>

DrainNext == QueueCallBeforeDrain \/ DrainPopNextPatient

\* the caller that drains the queue goes on calling pop_next_patient
SpecDrain == InitQueue /\ [][DrainNext]_vars /\ WF_vars(DrainPopNextPatient)

-----------------------------------------------------------------------------
(* Properties *)

\* every Patient object has an id of its own
DistinctPatientIds ==
    \A i, j \in 1..Len(all_patients) :
        all_patients[i].patient_id = all_patients[j].patient_id => i = j

\* the Patient objects that are live in the triage queue q
LivePatients(q) == {q.patient_lookup[k] : k \in DOMAIN q.patient_lookup}

\* the tuples of a heap list
Tuples(h) == {h[i] : i \in 1..Len(h)}

\* C1: over distinct patient ids, pop_next_patient returns only a patient
\* that is live in patient_lookup (so never one that remove_patient took
\* out), takes it out of patient_lookup, and returns None exactly when no
\* live patient is left.
C1_LazyDeletion ==
    [][(op' = "pop_next_patient" /\ DistinctPatientIds) =>
         /\ ret'.obj # None =>
              /\ ret'.obj \in LivePatients(triage_queue)
              /\ ret'.obj \notin LivePatients(triage_queue')
              /\ LivePatients(triage_queue') = LivePatients(triage_queue) \ {ret'.obj}
         /\ ret'.obj = None <=> LivePatients(triage_queue) = {}]_vars

\* a pop that finds no live patient left of three patients that were added
\* under ids of their own, with their tuples gone from the heap
C1_Witness ==
    /\ op = "pop_next_patient"
    /\ ret.obj = None
    /\ DistinctPatientIds
    /\ Len(all_patients) = 3
    /\ triage_queue.index >= 3
    /\ triage_queue.heap = <<>>

\* C2: pop_next_test never fails, returns only a test that is live in
\* test_lookup (never one that remove_test took out), and returns None
\* exactly when no live test is left.
C2_LabLazyDeletion ==
    [][op' = "pop_next_test" =>
         /\ ret'.err = ""
         /\ ret'.obj # None =>
              all_tests[ret'.obj].test_id \in DOMAIN priority_queue.test_lookup
         /\ ret'.obj = None <=> DOMAIN priority_queue.test_lookup = {}]_vars

\* C3: call_next_patient never returns a patient whose tier is worse than
\* the tier of a patient that is still live in the triage queue (no waiting
\* adjustment is made in this model).
C3_TierMonotonicity ==
    [][(op' = "call_next_patient" /\ ret'.obj # None) =>
         \A o \in LivePatients(triage_queue') :
            all_patients'[ret'.obj].priority <= all_patients'[o].priority]_vars

\* C4: after a rescoring only the newly pushed entry of a patient is live:
\* over distinct patient ids, get_next_patient and pop_next_patient return a
\* live patient whose present score is the lowest of the live patients.
C4_RescoredPosition ==
    [][(op' \in {"get_next_patient", "pop_next_patient"}
          /\ ret'.obj # None /\ DistinctPatientIds) =>
         \A o \in LivePatients(triage_queue) :
            get_priority_score(all_patients[ret'.obj], now)
              <= get_priority_score(all_patients[o], now)]_vars

\* a tuple of the triage heap whose patient id is in patient_lookup
LivePatientTuple(e) ==
    all_patients[e[3]].patient_id \in DOMAIN triage_queue.patient_lookup

\* C5: in both priority queues the tuple that a pop returns has the lowest
\* insertion index of the live tuples with its score; every tuple that is
\* pushed carries the value of the index counter, which is above the index
\* of every tuple pushed before and goes up with the push; so the insertion
\* indices of the tuples of a heap are all different and two tuples are
\* ordered without a comparison of their entities.
C5_FifoTieBreak ==
    /\ [][\A e \in Tuples(triage_queue'.heap) \ Tuples(triage_queue.heap) :
            /\ e[2] = triage_queue.index
            /\ triage_queue'.index > e[2]
            /\ \A f \in Tuples(triage_queue.heap) : f[2] < e[2]]_vars
    /\ [][\A e \in Tuples(priority_queue'.heap) \ Tuples(priority_queue.heap) :
            /\ e[2] = priority_queue.index
            /\ priority_queue'.index > e[2]
            /\ \A f \in Tuples(priority_queue.heap) : f[2] < e[2]]_vars
    /\ [][(op' = "pop_next_patient" /\ ret'.obj # None) =>
            \A e \in Tuples(triage_queue.heap) :
               (LivePatientTuple(e) /\ e[1] = item'[1]) => item'[2] <= e[2]]_vars
    /\ [][(op' = "pop_next_test" /\ ret'.obj # None) =>
            \A e \in Tuples(priority_queue.heap) :
               e[1] = item'[1] => item'[2] <= e[2]]_vars
    /\ [](\A i, j \in 1..Len(triage_queue.heap) :
            triage_queue.heap[i][2] = triage_queue.heap[j][2] => i = j)
    /\ [](\A i, j \in 1..Len(priority_queue.heap) :
            priority_queue.heap[i][2] = priority_queue.heap[j][2] => i = j)

\* a pop that returned one of two live patients with the same score
C5_Witness ==
    /\ op = "pop_next_patient"
    /\ ret.obj # None
    /\ \E e \in Tuples(triage_queue.heap) :
          /\ LivePatientTuple(e)
          /\ e[3] # ret.obj
          /\ e[1] = item[1]
          /\ e[2] > item[2]

\* C6: every worker's current_load stays within 0..capacity, and assign
\* returns None exactly when every registered worker is at its capacity.
C6_Capacity ==
    /\ [](\A d \in DOMAIN doctors :
            doctors[d].current_load \in 0..doctors[d].max_patients)
    /\ [](\A x \in DOMAIN technicians :
            technicians[x].current_load \in 0..technicians[x].max_concurrent)
    /\ [][op' = "assign_patient" =>
            (ret'.worker = None <=>
               \A d \in DOMAIN doctors :
                  doctors[d].current_load = doctors[d].max_patients)]_vars
    /\ [][op' = "assign_test" =>
            (ret'.worker = None <=>
               \A x \in DOMAIN technicians :
                  technicians[x].current_load = technicians[x].max_concurrent)]_vars

\* an assign_patient that found every registered doctor at capacity
C6_Witness ==
    /\ op = "assign_patient"
    /\ ret.worker = None
    /\ DOMAIN doctors # {}
    /\ \A d \in DOMAIN doctors : doctors[d].current_load = doctors[d].max_patients

\* C7: a discharge_patient / complete_test call on an entity that an
\* earlier call completed returns False and leaves every worker's load,
\* completed-today counter and assignment list as they were.
C7_IdempotentCompletion ==
    /\ [][(op' = "discharge_patient" /\ ret'.obj # None
            /\ all_patients[ret'.obj].status = DISCHARGED) =>
            (~ret'.ok /\ UNCHANGED <<doctors, patient_assignments>>)]_vars
    /\ [][(op' = "complete_test" /\ ret'.obj # None
            /\ all_tests[ret'.obj].status = COMPLETED) =>
            (~ret'.ok /\ UNCHANGED <<technicians, test_assignments>>)]_vars

\* C8: one doctor of capacity 1; E1 was registered, assigned and discharged;
\* E2, of a tier not worse than E1's, was registered after it and is waiting
\* unassigned; the doctor's load is 0. Then call_next_patient returns E2 and
\* assigns it to the doctor: load 1, E2's assigned doctor is that doctor.
C8_EndToEnd ==
    [][(/\ op' = "call_next_patient"
        /\ DOMAIN doctors = {1}
        /\ doctors[1].max_patients = 1
        /\ doctors[1].current_load = 0
        /\ Len(all_patients) = 2
        /\ DistinctPatientIds
        /\ all_patients[1].status = DISCHARGED
        /\ all_patients[1].assigned_doctor = 1
        /\ all_patients[2].status = WAITING
        /\ all_patients[2].assigned_doctor = None
        /\ all_patients[2].priority <= all_patients[1].priority
        /\ 2 \in LivePatients(triage_queue)) =>
         /\ ret'.obj = 2
         /\ doctors'[1].current_load = 1
         /\ all_patients'[2].assigned_doctor = 1]_vars

\* the tests that wait in the lab engine's queues
WaitingTests ==
    {priority_queue.test_lookup[k] : k \in DOMAIN priority_queue.test_lookup}
      \cup {routine_queue.queue[i] : i \in 1..Len(routine_queue.queue)}

\* C9: an entity that a worker holds (it is in the worker's assignment list
\* and counted in current_load) is not live in a waiting queue.
C9_NotWaitingAndAssigned ==
    /\ \A d \in DOMAIN doctors :
          \A i \in 1..Len(patient_assignments[d]) :
             patient_assignments[d][i] \notin LivePatients(triage_queue)
    /\ \A x \in DOMAIN technicians :
          \A i \in 1..Len(test_assignments[x]) :
             test_assignments[x][i] \notin WaitingTests

\* C10: the entity that call_next_patient / process_next_test takes out of
\* a queue is returned to the caller or is queued again when the call returns.
C10_ServeNextKeepsEntity ==
    /\ [][(op' = "call_next_patient" /\ item' # <<>>) =>
            (ret'.obj = item'[3] \/ item'[3] \in LivePatients(triage_queue'))]_vars
    /\ [][(op' = "process_next_test" /\ item' # <<>>) =>
            (ret'.obj = item'[3] \/ item'[3] \in WaitingTests')]_vars

\* the doctors whose assignment list holds the Patient object o
DoctorsHolding(asg, o) ==
    {d \in DOMAIN asg : \E i \in 1..Len(asg[d]) : asg[d][i] = o}

\* C11: a patient that call_next_patient returns holds an active assignment
\* when the call returns: it is in exactly one doctor's assignment list, that
\* doctor's current_load counts it, and the assigned_doctor returned names
\* that doctor (so no unassigned patient is returned).
C11_ServedIsAssigned ==
    [][(op' = "call_next_patient" /\ ret'.obj # None) =>
         /\ ret'.worker # None
         /\ DoctorsHolding(patient_assignments', ret'.obj) = {ret'.worker}
         /\ doctors'[ret'.worker].current_load >= 1]_vars

\* C12: update_patient_vitals is accepted (returns True, and pushes a tuple
\* with the present value of the index counter) only for a patient that is
\* waiting: its status is WAITING and no doctor is assigned to it; a call
\* that returns False changes neither a patient nor the heap or the index.
C12_UpdateOnlyWhenWaiting ==
    [][op' = "update_patient_vitals" =>
         /\ ret'.ok =>
              \A e \in Tuples(triage_queue'.heap) :
                 e[2] = triage_queue.index =>
                    /\ all_patients[e[3]].status = WAITING
                    /\ all_patients[e[3]].assigned_doctor = None
         /\ ~ret'.ok => UNCHANGED <<all_patients, triage_queue>>]_vars

\* C13: an entity that discharge_patient / the engine's complete_test has
\* completed is not live in a waiting queue: no patient with status
\* DISCHARGED is in patient_lookup (so get_queue_statistics does not count it
\* and no call_next_patient returns it), and no test with status COMPLETED
\* is in test_lookup or in the routine queue.
C13_CompletedNotQueued ==
    /\ \A o \in LivePatients(triage_queue) : all_patients[o].status # DISCHARGED
    /\ \A o \in WaitingTests : all_tests[o].status # COMPLETED

\* C14: terminal states are absorbing: a patient whose status is DISCHARGED
\* keeps it, and a lab test whose status is COMPLETED or CANCELLED keeps it,
\* whatever is called next.
C14_TerminalAbsorbing ==
    /\ [][\A o \in 1..Len(all_patients) :
            all_patients[o].status = DISCHARGED =>
               all_patients'[o].status = DISCHARGED]_vars
    /\ [][\A o \in 1..Len(all_tests) :
            all_tests[o].status \in {COMPLETED, CANCELLED} =>
               all_tests'[o].status = all_tests[o].status]_vars

\* C15: a complete_consultation / complete_test call of the worker pools
\* that takes nothing out of an assignment list (the worker does not hold the
\* entity, or the worker id is unknown) leaves every worker's current_load
\* unchanged.
C15_ReleaseNotHeld ==
    /\ [][(op' = "complete_consultation" /\ UNCHANGED patient_assignments) =>
            \A d \in DOMAIN doctors :
               doctors'[d].current_load = doctors[d].current_load]_vars
    /\ [][(op' = "complete_test" /\ UNCHANGED test_assignments) =>
            \A x \in DOMAIN technicians :
               technicians'[x].current_load = technicians[x].current_load]_vars

\* C16: in the worker pools each worker's current_load is the number of
\* entities in its assignment list, and so that number is within the
\* worker's capacity.
C16_LoadIsAssignmentCount ==
    /\ \A d \in DOMAIN doctors :
          /\ doctors[d].current_load = Len(patient_assignments[d])
          /\ Len(patient_assignments[d]) <= doctors[d].max_patients
    /\ \A x \in DOMAIN technicians :
          /\ technicians[x].current_load = Len(test_assignments[x])
          /\ Len(test_assignments[x]) <= technicians[x].max_concurrent

\* the places <<worker, position>> of the assignment lists asg
Places(asg) == UNION {{<<w, i>> : i \in 1..Len(asg[w])} : w \in DOMAIN asg}

\* the places of patient_assignments that hold a patient with this id
PatientAssignmentsOf(id) ==
    {pl \in Places(patient_assignments) :
        all_patients[patient_assignments[pl[1]][pl[2]]].patient_id = id}

\* the places of test_assignments that hold a test with this id
TestAssignmentsOf(id) ==
    {pl \in Places(test_assignments) :
        all_tests[test_assignments[pl[1]][pl[2]]].test_id = id}

\* C17: in the engines every entity id is in at most one worker's assignment
\* list and at most once in it, also when an id is submitted more than once.
C17_OneAssignmentPerEntity ==
    /\ \A id \in PatientIds :
          Cardinality(PatientAssignmentsOf(id)) <= 1
    /\ \A id \in TestIds :
          Cardinality(TestAssignmentsOf(id)) <= 1

\* the tuples of the triage heap h whose patient id is in patient_lookup
LiveTuples(h) == {e \in Tuples(h) : LivePatientTuple(e)}

\* C18: get_next_patient returns the patient that a pop_next_patient in its
\* place, and one that follows it at once, returns (None exactly when no
\* patient is live); it leaves patient_lookup, the index and the live tuples
\* (so their order) as they were, and takes only stale tuples off the heap.
C18_PeekPatient ==
    [][op' = "get_next_patient" =>
         /\ ret'.obj = pop_next_patient(triage_queue, all_patients).patient
         /\ ret'.obj = pop_next_patient(triage_queue', all_patients').patient
         /\ ret'.obj = None <=> LivePatients(triage_queue) = {}
         /\ ret'.obj # None =>
              all_patients[ret'.obj].patient_id \in DOMAIN triage_queue.patient_lookup
         /\ triage_queue'.patient_lookup = triage_queue.patient_lookup
         /\ triage_queue'.index = triage_queue.index
         /\ Tuples(triage_queue'.heap) \subseteq Tuples(triage_queue.heap)
         /\ LiveTuples(triage_queue'.heap) = LiveTuples(triage_queue.heap)]_vars

\* a peek that returned the patient at the heap top while a second patient
\* is live behind it and a third patient has left patient_lookup
C18_Witness ==
    /\ op = "get_next_patient"
    /\ ret.obj # None
    /\ item = triage_queue.heap[1]
    /\ DistinctPatientIds
    /\ Len(all_patients) = 3
    /\ Cardinality(DOMAIN triage_queue.patient_lookup) = 2

\* C19: get_next_test returns a test that is live in test_lookup (never one
\* that remove_test took out), the one with the lowest (score, index) of the
\* live tuples, and returns None exactly when no live test is left.
C19_PeekLab ==
    [][op' = "get_next_test" =>
         /\ ret'.obj # None =>
              /\ all_tests[ret'.obj].test_id \in DOMAIN priority_queue.test_lookup
              /\ \A e \in Tuples(priority_queue.heap) :
                    all_tests[e[3]].test_id \in DOMAIN priority_queue.test_lookup =>
                       ~TupleLess(e, item')
         /\ ret'.obj = None <=> DOMAIN priority_queue.test_lookup = {}]_vars

\* C20: the queue statistics count the live entries, that is the ids in the
\* look-up table (added, and neither popped nor removed since), whatever the
\* heap holds: total_patients and the priority_breakdown of
\* get_queue_statistics, and total_tests of get_queue_status.
C20_StatsCountLive ==
    /\ get_queue_statistics(triage_queue, all_patients).total_patients
          = Cardinality(DOMAIN triage_queue.patient_lookup)
    /\ \A pr \in CRITICAL..NON_URGENT :
          get_queue_statistics(triage_queue, all_patients).priority_breakdown[pr]
             = Cardinality({o \in LivePatients(triage_queue) : all_patients[o].priority = pr})
    /\ get_queue_status(priority_queue, all_tests).total_tests
          = Cardinality(DOMAIN priority_queue.test_lookup)

C22_TierDominatesScore ==
    op = "get_priority_score" =>
       \A i, j \in DOMAIN all_patients :
          (/\ all_patients[i].arrival_time <= now
           /\ all_patients[j].arrival_time <= now
           /\ _calculate_priority(all_patients[i]) < _calculate_priority(all_patients[j]))
             => item[i] < item[j]

\* a CRITICAL patient with the highest score of its tier (severity 25, no
\* wait, no flag) scored against an EMERGENCY patient with the lowest
\* (severity 78, full waiting penalty, ambulance and infectious disease)
C22_Witness ==
    /\ op = "get_priority_score"
    /\ _calculate_priority(all_patients[1]) = CRITICAL
    /\ _calculate_priority(all_patients[2]) = EMERGENCY
    /\ item[1] = 975
    /\ item[2] = 1472

\* C23: in the critical-medicine queue a medicine with a smaller priority
\* value has a strictly lower urgency score than one with a larger priority
\* value, whatever their stock and expiry, and pop_most_critical never
\* returns a medicine while one of a smaller priority value is queued.
C23_TierDominatesUrgency ==
    /\ [](\A e, f \in Tuples(critical_queue.heap) :
             medicines[e[3]].priority < medicines[f[3]].priority => e[1] < f[1])
    /\ [][(op' = "pop_most_critical" /\ ret'.obj # None) =>
            \A e \in Tuples(critical_queue'.heap) :
               medicines[ret'.obj].priority <= medicines[e[3]].priority]_vars

\* C24: with two threads inside register_patient (or add_test), interleaved
\* statement by statement, no worker's current_load exceeds its capacity,
\* and once no thread is inside a call current_load equals the length of
\* the worker's assignment list.
C24_ConcurrentCapacity ==
    /\ \A d \in DOMAIN doctors :
          /\ doctors[d].current_load <= doctors[d].max_patients
          /\ BusyThreads = {} => doctors[d].current_load = Len(patient_assignments[d])
    /\ \A x \in DOMAIN technicians :
          /\ technicians[x].current_load <= technicians[x].max_concurrent
          /\ BusyThreads = {} => technicians[x].current_load = Len(test_assignments[x])

\* C25: with two threads inside call_next_patient, interleaved statement by
\* statement, no call ends with an error and no patient is handed by
\* pop_next_patient to both threads.
C25_ConcurrentServeNext ==
    /\ op = "call_next_patient" => ret.err = ""
    /\ \A t, u \in Threads :
          (t # u /\ threads[t].pc = "call_status" /\ threads[u].pc = "call_status")
             => threads[t].obj # threads[u].obj

\* C26: register_patient accepts every patient record, whatever its severity
\* and flags: it ends without an error, the patient has one of the five
\* tiers, is in all_patients and is live in the triage queue.
C26_RegisterAcceptsAll ==
    [][op' = "register_patient" =>
         /\ ret'.err = ""
         /\ ret'.obj \in DOMAIN all_patients'
         /\ ret'.obj \notin DOMAIN all_patients
         /\ all_patients'[ret'.obj].priority \in CRITICAL..NON_URGENT
         /\ ret'.obj \in LivePatients(triage_queue')
         /\ \E e \in Tuples(triage_queue'.heap) : e[3] = ret'.obj]_vars

\* the names of the analytics calls
AnalyticsOps ==
    {"get_queue_statistics", "get_doctor_workload", "patient_get_dashboard_data",
     "get_queue_status", "get_technician_workload", "lab_get_dashboard_data"}

ReturnedAt == {i \in 1..Len(item.returned) : item.returned[i] # None}

\* C28: when a triage queue in any reachable state (several heap entries for
\* one patient included) is drained by pop_next_patient calls alone, every
\* call returns, the calls return each patient that was live once and none
\* twice, only patients that were live, and None from the call after the
\* last live patient on.
C28_Drain ==
    /\ [](Draining =>
            /\ \A i, j \in ReturnedAt :
                  i # j => /\ item.returned[i] # item.returned[j]
                           /\ all_patients[item.returned[i]].patient_id
                                # all_patients[item.returned[j]].patient_id
            /\ \A i \in ReturnedAt :
                  /\ all_patients[item.returned[i]].patient_id \in item.live
                  /\ DistinctPatientIds => item.returned[i] \in item.objs
            /\ \A i \in 1..Len(item.returned) :
                  i \in ReturnedAt <=> i <= Cardinality(item.live)
            /\ ret.obj = item.returned[Len(item.returned)])
    /\ (Draining ~>
          /\ Draining
          /\ Len(item.returned) = Cardinality(item.live) + MaxExtraPops
          /\ {all_patients[item.returned[i]].patient_id : i \in ReturnedAt} = item.live
          /\ ret.obj = None
          /\ triage_queue.patient_lookup = <<>>)

\* a queue that held three heap entries for two live patients was drained:
\* two calls returned the two patients and the next two returned None
C28_Witness ==
    /\ Draining
    /\ Cardinality(item.live) = 2
    /\ triage_queue.index = 3
    /\ Len(all_patients) = 2
    /\ Len(item.returned) = 4
    /\ item.returned[3] = None

\* no two LabTest objects have the same test_id
DistinctTestIds ==
    \A i, j \in 1..Len(all_tests) :
        all_tests[i].test_id = all_tests[j].test_id => i = j

\* C29: in every reachable state of the lab queue, after remove_test calls
\* too, next_test of get_queue_status is a live test whose (score, index) is
\* the smallest of the live tuples, and it is None exactly when no test is
\* live (stated over tests with ids of their own).
C29_NextTestIsServedNext ==
    LET next_test == get_queue_status(priority_queue, all_tests).next_test
        Live(e) == all_tests[e[3]].test_id \in DOMAIN priority_queue.test_lookup
    IN DistinctTestIds =>
       /\ next_test = None <=> DOMAIN priority_queue.test_lookup = {}
       /\ next_test # None =>
             \E e \in Tuples(priority_queue.heap) :
                /\ e[3] = next_test
                /\ Live(e)
                /\ \A f \in Tuples(priority_queue.heap) : Live(f) => ~TupleLess(f, e)

\* C30: add_test puts an EMERGENCY or URGENT test on the priority heap and
\* any other test at the end of the routine queue; process_next_test takes a
\* test off the routine queue only when the priority heap is empty, and it
\* takes the test at the front, so routine tests leave in the order they
\* were added.
C30_LabServingOrder ==
    /\ [][op' = "add_test" =>
            IF all_tests'[ret'.obj].priority \in {TEST_EMERGENCY, TEST_URGENT}
            THEN /\ \E e \in Tuples(priority_queue'.heap) : e[3] = ret'.obj
                 /\ Len(priority_queue'.heap) = Len(priority_queue.heap) + 1
                 /\ routine_queue' = routine_queue
            ELSE /\ routine_queue'.queue = Append(routine_queue.queue, ret'.obj)
                 /\ priority_queue' = priority_queue]_vars
    /\ [][(op' = "process_next_test" /\ routine_queue'.queue # routine_queue.queue) =>
            /\ priority_queue.heap = <<>>
            /\ routine_queue.queue # <<>>
            /\ routine_queue'.queue = Tail(routine_queue.queue)
            /\ item'[3] = Head(routine_queue.queue)]_vars
    /\ [][op' \notin {"add_test", "process_next_test"} =>
            routine_queue'.queue = routine_queue.queue]_vars

\* process_next_test took the first of two routine tests off the routine
\* queue, the priority heap being empty
C30_Witness ==
    /\ op = "process_next_test"
    /\ item = <<0, 0, 1>>
    /\ routine_queue.queue = <<2>>
    /\ priority_queue.heap = <<>>
    /\ all_tests[1].priority = TEST_ROUTINE

====
